---- MODULE Spec2Model ----
(***************************************************************************)
(* Lequel? - language identification based on character trigrams.          *)
(*                                                                         *)
(* Model of src/Lequel.cpp (trigram packing, profile building,             *)
(* normalisation, cosine similarity, classification), src/Text.cpp         *)
(* (decoding and line splitting) and the frame loop of src/main.cpp.       *)
(*                                                                         *)
(* Each pure function of the library is an operator; every specification   *)
(* below draws the function's inputs in its initial states and applies the *)
(* function in its actions.                                                *)
(*                                                                         *)
(* Representation choices                                                  *)
(*   float      a record [neg, m, e] of value (-1)^neg * m * 2^e, with m = 0*)
(*              or 2^23 <= m < 2^24: IEEE-754 binary32 restricted to zero  *)
(*              and the normal numbers, every operation rounded to nearest *)
(*              (ties to even) as the hardware does.                       *)
(*   uint64_t   a tuple of four 16-bit limbs, most significant first.      *)
(*   wchar_t    a natural number (a UTF-16 code unit when it comes out of  *)
(*              codecvt_utf8_utf16; up to 32 bits wide otherwise).         *)
(*   string     a sequence of bytes 0..255.                                *)
(*   unordered_map<uint64_t, float>                                        *)
(*              a sequence of records [key, value] with distinct keys; the *)
(*              order of the sequence is the map's iteration order.        *)
(***************************************************************************)
EXTENDS Integers, Sequences, FiniteSets, TLC

VARIABLES
    pc,              \* position of the running harness or of the frame loop
    data, data2,     \* two windows of three wide characters
    trigram, trigram2, \* their packed keys
    unpacked,        \* intToWcharTrigram(trigram)
    s,               \* getTextFromString: the string to convert
    text,            \* a Text: the list of lines
    raised,          \* an exception left the function called
    trigrams,        \* buildTrigramProfile: the profile being built
    lineNo,          \* buildTrigramProfile: lines of text already visited
    trigramProfile,  \* normalizeTrigramProfile: the profile, changed in place
    before,          \* the profile as it was handed to normalizeTrigramProfile
    textProfile, languageProfile, \* getCosineSimilarity: its two arguments
    similarity,      \* getCosineSimilarity(textProfile, languageProfile)
    similarityBA,    \* getCosineSimilarity(languageProfile, textProfile)
    languages,       \* identifyLanguage: the language profiles
    textTrigrams,    \* identifyLanguage: the normalized profile of the text
    languageCode,    \* identifyLanguage: the code returned
    buildCalls,      \* calls of buildTrigramProfile made by identifyLanguage
    simCalls,        \* calls of getCosineSimilarity made by identifyLanguage
    currentState,    \* main: WAITING, PROCESSING or RESULT_READY
    processing,      \* main: the "Processing..." screen is still to be drawn
    loadedText,      \* main: an input waits to be classified
    pendingClipboard, pendingFilePath, isFromFile, \* main: the input kept
    keyV, keyModifier, keySpace, \* this frame: V pressed, Ctrl/Cmd down, Space pressed
    droppedFiles,    \* this frame: number of files dropped and not yet unloaded
    accepted,        \* an input was accepted in this frame
    shown,           \* "Processing..." was drawn since the last accepted input
    classification   \* this frame's processing step: none, identified, failed, thrown

packVars == <<data, data2, trigram, trigram2, unpacked>>

textVars == <<s, text, raised>>

buildVars == <<trigrams, lineNo>>

normVars == <<trigramProfile, before>>

cosVars == <<textProfile, languageProfile, similarity, similarityBA>>

identVars == <<languages, textTrigrams, languageCode, buildCalls, simCalls>>

mainVars ==
    <<currentState, processing, loadedText, pendingClipboard, pendingFilePath,
      isFromFile, keyV, keyModifier, keySpace, droppedFiles, accepted, shown,
      classification>>

vars == <<pc, packVars, textVars, buildVars, normVars, cosVars, identVars, mainVars>>

-----------------------------------------------------------------------------
(* binary32 arithmetic                                                      *)

\* Significand width of 'float' (the mapped type of TrigramProfile).
MantBits == 24

Hidden == 2^(MantBits - 1)

MantLimit == 2^MantBits

HalfBits == MantBits \div 2

HalfLimb == 2^HalfBits

RECURSIVE BitLen(_)
BitLen(x) == IF x = 0 THEN 0 ELSE 1 + BitLen(x \div 2)

FZero == [neg |-> FALSE, m |-> 0, e |-> 0]

\* The float nearest to x * 2^e (x a natural number whose lowest bit may be a
\* sticky bit when x is wider than the significand by two bits or more).
RoundPack(neg, x, e) ==
    IF x = 0 THEN FZero
    ELSE LET nb == BitLen(x) IN
         IF nb <= MantBits
         THEN [neg |-> neg, m |-> x * 2^(MantBits - nb), e |-> e - (MantBits - nb)]
         ELSE LET sh   == nb - MantBits
                  q    == x \div 2^sh
                  r    == x % 2^sh
                  half == 2^(sh - 1)
                  up   == r > half \/ (r = half /\ q % 2 = 1)
                  q2   == IF up THEN q + 1 ELSE q
              IN IF q2 = MantLimit
                 THEN [neg |-> neg, m |-> Hidden, e |-> e + sh + 1]
                 ELSE [neg |-> neg, m |-> q2, e |-> e + sh]

Jam(q, sticky) == IF sticky /\ q % 2 = 0 THEN q + 1 ELSE q

\* (float)n for an int n >= 0
FromInt(n) == RoundPack(FALSE, n, 0)

FOne == FromInt(1)

\* a + b for operands of the same sign
FAdd(a, b) ==
    IF a.m = 0 THEN b
    ELSE IF b.m = 0 THEN a
    ELSE LET hi == IF a.e >= b.e THEN a ELSE b
             lo == IF a.e >= b.e THEN b ELSE a
             d  == hi.e - lo.e
             xb == IF d > MantBits + 3 THEN 1
                   ELSE Jam((lo.m * 8) \div 2^d, (lo.m * 8) % 2^d # 0)
         IN RoundPack(a.neg, hi.m * 8 + xb, hi.e - 3)

\* a * b
FMul(a, b) ==
    IF a.m = 0 \/ b.m = 0 THEN FZero
    ELSE LET a1 == a.m \div HalfLimb
             a0 == a.m % HalfLimb
             b1 == b.m \div HalfLimb
             b0 == b.m % HalfLimb
             cross == a1 * b0 + a0 * b1
             low   == (cross % HalfLimb) * HalfLimb + a0 * b0
             hi    == a1 * b1 + cross \div HalfLimb + low \div MantLimit
             lo    == low % MantLimit
             x     == Jam(hi * 8 + lo \div 2^(MantBits - 3), lo % 2^(MantBits - 3) # 0)
         IN RoundPack(a.neg # b.neg, x, a.e + b.e + MantBits - 3)

RECURSIVE DivBits(_, _, _, _)
DivBits(rem, d, q, n) ==
    IF n = 0 THEN <<q, rem>>
    ELSE LET r2 == rem * 2
         IN IF r2 >= d THEN DivBits(r2 - d, d, q * 2 + 1, n - 1)
            ELSE DivBits(r2, d, q * 2, n - 1)

\* a / b, b # 0
FDiv(a, b) ==
    IF a.m = 0 THEN FZero
    ELSE LET qr == DivBits(a.m % b.m, b.m, a.m \div b.m, MantBits + 2)
         IN RoundPack(a.neg # b.neg, Jam(qr[1] * 2, qr[2] # 0), a.e - b.e - (MantBits + 3))

RECURSIVE SqrtPairs(_, _, _, _, _)
SqrtPairs(x, rem, root, n, zeros) ==
    IF n = 0 /\ zeros = 0 THEN <<root, rem>>
    ELSE LET pair  == IF n > 0 THEN (x \div 4^(n - 1)) % 4 ELSE 0
             r2    == rem * 4 + pair
             trial == root * 4 + 1
             n2    == IF n > 0 THEN n - 1 ELSE 0
             z2    == IF n > 0 THEN zeros ELSE zeros - 1
         IN IF r2 >= trial THEN SqrtPairs(x, r2 - trial, root * 2 + 1, n2, z2)
            ELSE SqrtPairs(x, r2, root * 2, n2, z2)

\* sqrt(a), a >= 0
FSqrt(a) ==
    IF a.m = 0 THEN FZero
    ELSE LET odd == a.e % 2 # 0
             m2  == IF odd THEN a.m * 2 ELSE a.m
             e2  == IF odd THEN a.e - 1 ELSE a.e
             rr  == SqrtPairs(m2, 0, 0, HalfBits + 1, HalfBits + 2)
         IN RoundPack(FALSE, Jam(rr[1] * 2, rr[2] # 0), (e2 \div 2) - (HalfBits + 2) - 1)

\* a < b
FLess(a, b) ==
    IF a.neg # b.neg THEN a.neg /\ (a.m # 0 \/ b.m # 0)
    ELSE LET magLess(x, y) == \/ (x.m = 0 /\ y.m # 0)
                              \/ (x.m # 0 /\ y.m # 0 /\ (x.e < y.e \/ (x.e = y.e /\ x.m < y.m)))
         IN IF a.neg THEN magLess(b, a) ELSE magLess(a, b)

\* a > b
FGreater(a, b) == FLess(b, a)

-----------------------------------------------------------------------------
(* uint64_t as four 16-bit limbs                                            *)

LimbBits == 16

LimbBase == 2^LimbBits

RECURSIVE BitOr(_, _)
BitOr(a, b) ==
    IF a = 0 THEN b
    ELSE IF b = 0 THEN a
    ELSE (IF a % 2 = 1 \/ b % 2 = 1 THEN 1 ELSE 0) + 2 * BitOr(a \div 2, b \div 2)

RECURSIVE BitAnd(_, _)
BitAnd(a, b) ==
    IF a = 0 \/ b = 0 THEN 0
    ELSE (IF a % 2 = 1 /\ b % 2 = 1 THEN 1 ELSE 0) + 2 * BitAnd(a \div 2, b \div 2)

U64Zero == <<0, 0, 0, 0>>

\* uint64_t(c) for a wide character c below 2^32
ToU64(c) == <<0, 0, c \div LimbBase, c % LimbBase>>

\* x << 16 and x >> 16 on 64 bits
Shl16(x) == <<x[2], x[3], x[4], 0>>

Shr16(x) == <<0, x[1], x[2], x[3]>>

Or64(x, y) == [i \in 1..4 |-> BitOr(x[i], y[i])]

And64(x, y) == [i \in 1..4 |-> BitAnd(x[i], y[i])]

Mask16 == <<0, 0, 0, LimbBase - 1>>

\* static_cast<wchar_t>(x) for x below 2^32
ToWchar(x) == x[3] * LimbBase + x[4]

-----------------------------------------------------------------------------
(* Trigram keys: src/Lequel.cpp, global helper functions                    *)

WcharTrigramToIntShift8(d) ==
    Or64(Or64(Shl16(Shl16(ToU64(d[1]))), ToU64(d[2] * 2^8)), ToU64(d[3]))

\* (uint64_t(data[0]) << 32) | (uint64_t(data[1]) << 16) | uint64_t(data[2])
wcharTrigramToInt(d) ==
    Or64(Or64(Shl16(Shl16(ToU64(d[1]))), Shl16(ToU64(d[2]))), ToU64(d[3]))

\* the three 16-bit fields of a key, most significant first
intToWcharTrigram(t) ==
    << ToWchar(And64(Shr16(Shr16(t)), Mask16)),
       ToWchar(And64(Shr16(t), Mask16)),
       ToWchar(And64(t, Mask16)) >>

-----------------------------------------------------------------------------
(* UTF-8 decoding: std::wstring_convert<std::codecvt_utf8_utf16<wchar_t>>   *)

LF == 10

CR == 13

IsCont(b) == b >= 128 /\ b < 192

\* the UTF-16 code units of code point cp
Utf16Units(cp) ==
    IF cp < 65536 THEN <<cp>>
    ELSE <<55296 + ((cp - 65536) \div 1024), 56320 + ((cp - 65536) % 1024)>>

\* converter.from_bytes(b): [ok |-> TRUE, w |-> the UTF-16 code units] for
\* well-formed UTF-8, [ok |-> FALSE] where from_bytes throws std::range_error
\* (an invalid lead byte, a missing or invalid continuation byte, an overlong
\* form, a surrogate, a code point above 0x10FFFF).
RECURSIVE FromBytes(_)
FromBytes(b) ==
    IF b = <<>> THEN [ok |-> TRUE, w |-> <<>>]
    ELSE LET b1  == b[1]
             n   == IF b1 < 128 THEN 1
                    ELSE IF b1 < 194 THEN 0
                    ELSE IF b1 < 224 THEN 2
                    ELSE IF b1 < 240 THEN 3
                    ELSE IF b1 < 245 THEN 4
                    ELSE 0
             wellFormed == /\ n > 0
                           /\ Len(b) >= n
                           /\ \A i \in 2..n : IsCont(b[i])
             cp  == IF n = 1 THEN b1
                    ELSE IF n = 2 THEN (b1 - 192) * 64 + (b[2] - 128)
                    ELSE IF n = 3 THEN (b1 - 224) * 4096 + (b[2] - 128) * 64 + (b[3] - 128)
                    ELSE (b1 - 240) * 262144 + (b[2] - 128) * 4096
                         + (b[3] - 128) * 64 + (b[4] - 128)
             valid == /\ wellFormed
                      /\ n = 3 => (cp >= 2048 /\ ~(cp >= 55296 /\ cp < 57344))
                      /\ n = 4 => (cp >= 65536 /\ cp < 1114112)
         IN IF ~valid THEN [ok |-> FALSE, w |-> <<>>]
            ELSE LET rest == FromBytes(SubSeq(b, n + 1, Len(b)))
                 IN IF rest.ok THEN [ok |-> TRUE, w |-> Utf16Units(cp) \o rest.w]
                    ELSE rest

-----------------------------------------------------------------------------
(* src/Text.cpp                                                             *)

\* ::towlower in the "C" locale the program runs in: 'A'..'Z' to 'a'..'z'
towlower(c) == IF c >= 65 /\ c <= 90 THEN c + 32 ELSE c

ToLower(ws) == [i \in 1..Len(ws) |-> towlower(ws[i])]

Npos == -1

\* ws.find(c, from): the 0-based position of the first c at or after from
RECURSIVE Find(_, _, _)
Find(ws, c, from) ==
    IF from >= Len(ws) THEN Npos
    ELSE IF ws[from + 1] = c THEN from
    ELSE Find(ws, c, from + 1)

\* ws.substr(pos, n)
Substr(ws, pos, n) == SubSeq(ws, pos + 1, pos + n)

SplitKeepCR(ws, prevPosition, position) ==
    Substr(ws, prevPosition, position - prevPosition)

\* the line pushed for the line feed found at position
SplitLine(ws, prevPosition, position) ==
    IF position > prevPosition /\ ws[position - 1 + 1] = CR
    THEN Substr(ws, prevPosition, position - 1 - prevPosition)
    ELSE Substr(ws, prevPosition, position - prevPosition)

\* the while loop and the final push_back
RECURSIVE SplitLines(_, _, _)
SplitLines(ws, prevPosition, lines) ==
    LET position == Find(ws, LF, prevPosition)
    IN IF position # Npos
       THEN SplitLines(ws, position + 1,
                       Append(lines, SplitLine(ws, prevPosition, position)))
       ELSE Append(lines, SubSeq(ws, prevPosition + 1, Len(ws)))

\* getTextFromString(str, text): the text left in `text`, and whether the
\* conversion threw (text.clear() has run by then)
getTextFromString(str) ==
    LET dec == FromBytes(str)
    IN IF ~dec.ok THEN [raised |-> TRUE, text |-> <<>>]
       ELSE [raised |-> FALSE, text |-> SplitLines(ToLower(dec.w), 0, <<>>)]

\* The files a dropped path may name: one that cannot be opened, one holding
\* "ABA\r\nab", one holding 'a', 0xFF, 'a' (not UTF-8), and an empty one.
FilePaths == {"missing.txt", "plain.txt", "latin1.txt", "empty.txt"}

FileOpens(path) == path # "missing.txt"

FileData(path) ==
    CASE path = "plain.txt"  -> <<65, 66, 65, CR, LF, 97, 98>>
      [] path = "latin1.txt" -> <<97, 255, 97>>
      [] OTHER               -> <<>>

\* getTextFromFile(path, text): whether it succeeded, the text left in
\* `text`, and whether the conversion threw
getTextFromFile(path) ==
    IF ~FileOpens(path) THEN [success |-> FALSE, raised |-> FALSE, text |-> <<>>]
    ELSE LET r == getTextFromString(FileData(path))
         IN [success |-> ~r.raised, raised |-> r.raised, text |-> r.text]

-----------------------------------------------------------------------------
(* Trigram profiles: src/Lequel.cpp, extractTrigramsFromLine and            *)
(* buildTrigramProfile                                                      *)

\* profile.find(key): the position of key in the profile, 0 for end()
Lookup(profile, key) ==
    IF \E i \in 1..Len(profile) : profile[i].key = key
    THEN CHOOSE i \in 1..Len(profile) : profile[i].key = key
    ELSE 0

\* ++trigrams[key]: operator[] inserts the key with 0.0f when it is missing
Increment(profile, key) ==
    LET i == Lookup(profile, key)
    IN IF i = 0 THEN Append(profile, [key |-> key, value |-> FAdd(FZero, FOne)])
       ELSE [profile EXCEPT ![i].value = FAdd(@, FOne)]

\* the while loop that pops '\r' and '\n' off the end of cleanLine
RECURSIVE StripLineEnding(_)
StripLineEnding(line) ==
    IF line # <<>> /\ (line[Len(line)] = CR \/ line[Len(line)] = LF)
    THEN StripLineEnding(SubSeq(line, 1, Len(line) - 1))
    ELSE line

\* the test that guards ++trigrams[trigram] on the Unicode path
KeepsTrigram(t) ==
    /\ t # U64Zero
    /\ And64(t, Mask16) # U64Zero
    /\ And64(Shr16(t), Mask16) # U64Zero
    /\ And64(Shr16(Shr16(t)), Mask16) # U64Zero

RECURSIVE UnicodeWindowsOffByOne(_, _, _)
UnicodeWindowsOffByOne(wline, i, profile) ==
    IF i >= Len(wline) - 3 THEN profile
    ELSE LET t == wcharTrigramToInt(SubSeq(wline, i + 1, i + 3))
         IN UnicodeWindowsOffByOne(wline, i + 1,
                IF t # U64Zero THEN Increment(profile, t) ELSE profile)

\* for (i = 0; i <= wline.length() - 3; ++i) on the Unicode path
RECURSIVE UnicodeWindows(_, _, _)
UnicodeWindows(wline, i, profile) ==
    IF i > Len(wline) - 3 THEN profile
    ELSE LET t == wcharTrigramToInt(SubSeq(wline, i + 1, i + 3))
         IN UnicodeWindows(wline, i + 1,
                           IF KeepsTrigram(t) THEN Increment(profile, t) ELSE profile)

\* the key the fallback packs from three bytes
ByteTrigram(b) ==
    Or64(Or64(Shl16(Shl16(ToU64(b[1]))), Shl16(ToU64(b[2]))), ToU64(b[3]))

\* for (i = 0; i <= cleanLine.length() - 3; ++i) in the catch block
RECURSIVE ByteWindows(_, _, _)
ByteWindows(cleanLine, i, profile) ==
    IF i > Len(cleanLine) - 3 THEN profile
    ELSE LET t == ByteTrigram(SubSeq(cleanLine, i + 1, i + 3))
         IN ByteWindows(cleanLine, i + 1,
                        IF t # U64Zero THEN Increment(profile, t) ELSE profile)

extractTrigramsFromLine(line, profile) ==
    IF Len(line) < 3 THEN profile
    ELSE LET cleanLine == StripLineEnding(line)
         IN IF Len(cleanLine) < 3 THEN profile
            ELSE LET dec == FromBytes(cleanLine)
                 IN IF dec.ok
                    THEN IF Len(dec.w) < 3 THEN profile
                         ELSE UnicodeWindows(dec.w, 0, profile)
                    ELSE ByteWindows(cleanLine, 0, profile)

\* one turn of the loop over the lines of text
BuildStep(line, profile) ==
    IF Len(line) >= 3 THEN extractTrigramsFromLine(line, profile) ELSE profile

RECURSIVE BuildLines(_, _, _)
BuildLines(lines, k, profile) ==
    IF k > Len(lines) THEN profile
    ELSE BuildLines(lines, k + 1, BuildStep(lines[k], profile))

buildTrigramProfile(lines) ==
    IF lines = <<>> THEN <<>> ELSE BuildLines(lines, 1, <<>>)

-----------------------------------------------------------------------------
(* src/Lequel.cpp: calculateNorm, normalizeTrigramProfile,                  *)
(* getCosineSimilarity                                                      *)

RECURSIVE SumSquares(_, _, _)
SumSquares(profile, i, norm_sq) ==
    IF i > Len(profile) THEN norm_sq
    ELSE SumSquares(profile, i + 1,
                    FAdd(norm_sq, FMul(profile[i].value, profile[i].value)))

CalculateNormNoSqrt(profile) == SumSquares(profile, 1, FZero)

calculateNorm(profile) == FSqrt(SumSquares(profile, 1, FZero))

normalizeTrigramProfile(profile) ==
    IF profile = <<>> THEN profile
    ELSE LET norm == calculateNorm(profile)
         IN IF FGreater(norm, FZero)
            THEN LET invNorm == FDiv(FOne, norm)
                 IN [i \in 1..Len(profile) |->
                        [key |-> profile[i].key, value |-> FMul(profile[i].value, invNorm)]]
            ELSE profile

RECURSIVE DotProductMissingAsOne(_, _, _, _)
DotProductMissingAsOne(smallerProfile, largerProfile, i, dotProduct) ==
    IF i > Len(smallerProfile) THEN dotProduct
    ELSE LET it == Lookup(largerProfile, smallerProfile[i].key)
         IN DotProductMissingAsOne(smallerProfile, largerProfile, i + 1,
                FAdd(dotProduct,
                     FMul(smallerProfile[i].value,
                          IF it # 0 THEN largerProfile[it].value ELSE FOne)))

\* the loop over smallerProfile
RECURSIVE DotProduct(_, _, _, _)
DotProduct(smallerProfile, largerProfile, i, dotProduct) ==
    IF i > Len(smallerProfile) THEN dotProduct
    ELSE LET it == Lookup(largerProfile, smallerProfile[i].key)
         IN DotProduct(smallerProfile, largerProfile, i + 1,
                       IF it # 0
                       THEN FAdd(dotProduct, FMul(smallerProfile[i].value, largerProfile[it].value))
                       ELSE dotProduct)

getCosineSimilarity(tp, lp) ==
    IF tp = <<>> \/ lp = <<>> THEN FZero
    ELSE LET smallerProfile == IF Len(tp) < Len(lp) THEN tp ELSE lp
             largerProfile  == IF Len(tp) < Len(lp) THEN lp ELSE tp
         IN DotProduct(smallerProfile, largerProfile, 1, FZero)

-----------------------------------------------------------------------------
(* src/Lequel.cpp: identifyLanguage                                         *)

\* -1.0f
FMinusOne == [neg |-> TRUE, m |-> Hidden, e |-> 1 - MantBits]

\* similarityThreshold = 0.01f
similarityThreshold == [neg |-> FALSE, m |-> 10737418, e |-> -30]

UpdatesBestOnTie(sim, maxSimilarity) == ~FLess(sim, maxSimilarity)

\* if (similarity > maxSimilarity)
UpdatesBest(sim, maxSimilarity) == FGreater(sim, maxSimilarity)

\* the body of the loop over languages; best is the position of the language
\* bestLanguageCode points into, 0 for nullptr
ScanUpdate(acc, i, sim) ==
    IF UpdatesBest(sim, acc.maxSimilarity)
    THEN [maxSimilarity |-> sim, best |-> i, calls |-> acc.calls + 1]
    ELSE [acc EXCEPT !.calls = @ + 1]

\* for (const auto& langProfile : languages)
RECURSIVE ScanLanguages(_, _, _, _)
ScanLanguages(tt, langs, i, acc) ==
    IF i > Len(langs) THEN acc
    ELSE ScanLanguages(tt, langs, i + 1,
             ScanUpdate(acc, i, getCosineSimilarity(tt, langs[i].trigramProfile)))

IsConfidentAtThreshold(maxSimilarity, best) ==
    ~FLess(maxSimilarity, similarityThreshold) /\ best # 0

isConfidentMatch(maxSimilarity, best) ==
    FGreater(maxSimilarity, similarityThreshold) /\ best # 0

NeverReturnsEarly(built) == FALSE

\* if (textTrigrams.empty()) return "unknown";
ReturnsOnEmptyProfile(built) == built = <<>>

\* identifyLanguage(lines, langs), where built is what buildTrigramProfile
\* returns for lines, in the iteration order of the map: the code returned,
\* the normalized profile, and the calls made on the way
identifyLanguage(lines, langs, built) ==
    IF lines = <<>> \/ langs = <<>>
    THEN [code |-> "unknown", textTrigrams |-> <<>>, buildCalls |-> 0, simCalls |-> 0]
    ELSE IF ReturnsOnEmptyProfile(built)
    THEN [code |-> "unknown", textTrigrams |-> built, buildCalls |-> 1, simCalls |-> 0]
    ELSE LET tt   == normalizeTrigramProfile(built)
             scan == ScanLanguages(tt, langs, 1,
                         [maxSimilarity |-> FMinusOne, best |-> 0, calls |-> 0])
         IN [code |-> IF isConfidentMatch(scan.maxSimilarity, scan.best)
                      THEN langs[scan.best].languageCode
                      ELSE "unknown",
             textTrigrams |-> tt,
             buildCalls |-> 1,
             simCalls |-> scan.calls]

-----------------------------------------------------------------------------
(* Profiles handed to the functions: tables of whole counts, as            *)
(* buildTrigramProfile and the loader of main.cpp make them                 *)

\* the keys of "aaa", "aab" and "aba"
ProfileKeys ==
    {wcharTrigramToInt(w) : w \in {<<97, 97, 97>>, <<97, 97, 98>>, <<97, 98, 97>>}}

\* the sequences of n distinct elements of S: the iteration orders of a map
RECURSIVE Arrangements(_, _)
Arrangements(S, n) ==
    IF n = 0 THEN {<<>>}
    ELSE {Append(q, x) : q \in Arrangements(S, n - 1), x \in S} \ 
         {q \in {Append(r, x) : r \in Arrangements(S, n - 1), x \in S} :
             \E i \in 1..(Len(q) - 1) : q[i] = q[Len(q)]}

\* every profile over the keys K with counts in C, in every iteration order
CountProfiles(K, C) ==
    UNION {{[i \in 1..n |-> [key |-> ks[i], value |-> FromInt(cs[i])]] :
               ks \in Arrangements(K, n), cs \in [1..n -> C]} :
           n \in 0..Cardinality(K)}

-----------------------------------------------------------------------------
(* Decoding harness                                                         *)

MaxBytes == 4

\* '\n', '\r', 'A', 'a', the two bytes of U+00E9, and 0xFF (never valid)
TextBytes == {LF, CR, 65, 97, 195, 169, 255}

RECURSIVE SeqsUpTo(_, _)
SeqsUpTo(S, n) ==
    IF n = 0 THEN {<<>>}
    ELSE LET shorter == SeqsUpTo(S, n - 1)
         IN shorter \cup {Append(q, x) : q \in {r \in shorter : Len(r) = n - 1}, x \in S}

(* Packing and unpacking harness                                            *)

\* Wide characters tried: the zero sentinel, 'a', 0x6100, the largest 16-bit
\* value, and 0x10061, which only a 32-bit wchar_t can hold.
PackChars == {0, 97, 24832, 65535, 65633}

Windows == {<<a, b, c>> : a \in PackChars, b \in PackChars, c \in PackChars}

\* the windows of the second operand: those that differ from 'a','a','a' in
\* at most one place, enough to meet every field of the key
Windows2 ==
    {w \in Windows : Cardinality({i \in 1..3 : w[i] # 97}) <= 1}

PackIdle ==
    /\ data = <<>> /\ data2 = <<>>
    /\ trigram = U64Zero /\ trigram2 = U64Zero
    /\ unpacked = <<>>

TextIdle == s = <<>> /\ text = <<>> /\ raised = FALSE

BuildIdle == trigrams = <<>> /\ lineNo = 0

NormIdle == trigramProfile = <<>> /\ before = <<>>

IdentIdle ==
    /\ languages = <<>> /\ textTrigrams = <<>> /\ languageCode = "---"
    /\ buildCalls = 0 /\ simCalls = 0

\* main.cpp:114-122, before the first frame
MainIdle ==
    /\ currentState = "WAITING"
    /\ processing = FALSE /\ loadedText = FALSE
    /\ pendingClipboard = <<>> /\ pendingFilePath = "" /\ isFromFile = FALSE
    /\ keyV = FALSE /\ keyModifier = FALSE /\ keySpace = FALSE
    /\ droppedFiles = 0
    /\ accepted = FALSE /\ shown = FALSE /\ classification = "none"

CosIdle ==
    /\ textProfile = <<>> /\ languageProfile = <<>>
    /\ similarity = FZero /\ similarityBA = FZero

InitPack ==
    /\ MainIdle
    /\ pc = "pack"
    /\ TextIdle
    /\ BuildIdle
    /\ NormIdle
    /\ CosIdle
    /\ IdentIdle
    /\ data \in Windows
    /\ data2 \in Windows2
    /\ trigram = U64Zero /\ trigram2 = U64Zero
    /\ unpacked = <<>>

Pack ==
    /\ pc = "pack"
    /\ trigram' = wcharTrigramToInt(data)
    /\ trigram2' = wcharTrigramToInt(data2)
    /\ pc' = "packed"
    /\ UNCHANGED <<mainVars, data, data2, unpacked, textVars, buildVars, normVars, cosVars, identVars>>

Unpack ==
    /\ pc = "packed"
    /\ unpacked' = intToWcharTrigram(trigram)
    /\ pc' = "unpacked"
    /\ UNCHANGED <<mainVars, data, data2, trigram, trigram2, textVars, buildVars, normVars, cosVars, identVars>>

NextPack == Pack \/ Unpack

SpecPack == InitPack /\ [][NextPack]_vars

InRange16(w) == \A i \in 1..3 : w[i] < LimbBase

\* C5: packing then unpacking a window of three 16-bit characters gives the
\* same three characters back, and two such windows have the same key exactly
\* when they are the same window.
C5_RoundTrip ==
    /\ (pc = "unpacked" /\ InRange16(data)) => unpacked = data
    /\ (pc # "pack" /\ InRange16(data) /\ InRange16(data2))
          => ((trigram = trigram2) <=> (data = data2))

C5_Witness ==
    /\ pc = "unpacked"
    /\ data = <<65535, 24832, 97>>
    /\ data2 = <<97, 97, 24832>>
    /\ unpacked = data
    /\ trigram # trigram2

-----------------------------------------------------------------------------
(* getTextFromString harness                                                *)

InitText ==
    /\ MainIdle
    /\ pc = "text"
    /\ PackIdle
    /\ BuildIdle
    /\ NormIdle
    /\ CosIdle
    /\ IdentIdle
    /\ s \in SeqsUpTo(TextBytes, MaxBytes)
    /\ text = <<>>
    /\ raised = FALSE

GetTextFromString ==
    /\ pc = "text"
    /\ LET r == getTextFromString(s)
       IN /\ text' = r.text
          /\ raised' = r.raised
          /\ pc' = IF r.raised THEN "thrown" ELSE "split"
    /\ UNCHANGED <<mainVars, s, packVars, buildVars, normVars, cosVars, identVars>>

NextText == GetTextFromString

SpecText == InitText /\ [][NextText]_vars

\* C9: for every byte sequence getTextFromString completes without a failure
\* reaching its caller and yields the lines of a character sequence: the
\* decoded characters, or one character per raw byte when decoding fails.
C9_NoFailurePropagated ==
    pc # "text" =>
        /\ ~raised
        /\ text = SplitLines(ToLower(IF FromBytes(s).ok THEN FromBytes(s).w ELSE s), 0, <<>>)

\* the decoded, case-folded characters that getTextFromString splits
Decoded == ToLower(FromBytes(s).w)

LFPositions == {p \in 1..Len(Decoded) : Decoded[p] = LF}

\* 1-based position of the k-th line feed
LFAt(k) == CHOOSE p \in LFPositions : Cardinality({q \in LFPositions : q < p}) = k - 1

\* line k as the claim describes it: the characters between the line feeds
\* around it, less a carriage return standing immediately before its line feed
ExpectedLine(k) ==
    LET first == IF k = 1 THEN 1 ELSE LFAt(k - 1) + 1
        last  == IF k <= Cardinality(LFPositions) THEN LFAt(k) - 1 ELSE Len(Decoded)
        crlf  == k <= Cardinality(LFPositions) /\ last >= first /\ Decoded[last] = CR
    IN SubSeq(Decoded, first, IF crlf THEN last - 1 ELSE last)

RECURSIVE JoinLines(_, _)
JoinLines(lines, k) ==
    IF k > Len(lines) THEN <<>>
    ELSE IF k = Len(lines) THEN lines[k]
    ELSE lines[k] \o <<LF>> \o JoinLines(lines, k + 1)

\* the text with every "\r\n" shortened to "\n"
RECURSIVE DropCRBeforeLF(_)
DropCRBeforeLF(ws) ==
    IF ws = <<>> THEN <<>>
    ELSE IF Len(ws) >= 2 /\ ws[1] = CR /\ ws[2] = LF THEN DropCRBeforeLF(Tail(ws))
    ELSE <<ws[1]>> \o DropCRBeforeLF(Tail(ws))

\* C10: the decoded text is split at every line feed: one line more than
\* there are line feeds, no line holds a line feed, every line is the text
\* between two line feeds less the carriage return that stood immediately
\* before its line feed, and the lines joined by line feeds give the text
\* back with each "\r\n" read as one terminator.
C10_SplitAtLineFeeds ==
    pc = "split" =>
        /\ Len(text) = Cardinality(LFPositions) + 1
        /\ \A k \in 1..Len(text) :
              /\ \A i \in 1..Len(text[k]) : text[k][i] # LF
              /\ text[k] = ExpectedLine(k)
        /\ JoinLines(text, 1) = DropCRBeforeLF(Decoded)

C10_Witness ==
    /\ pc = "split"
    /\ s = <<65, CR, LF, 97>>
    /\ text = << <<97>>, <<97>> >>

-----------------------------------------------------------------------------
(* buildTrigramProfile harness: one step per line of the text               *)

MaxLineLen == 4

\* NUL, '\n', '\r', 'a', the two bytes of U+00E9, and 0xFF (never valid)
BuildBytes == {0, LF, CR, 97, 195, 169, 255}

BuildLinesSet == SeqsUpTo(BuildBytes, MaxLineLen)

\* no line, one line, or "aaa" followed by one line
BuildTexts ==
    {<<>>} \cup {<<l>> : l \in BuildLinesSet}
           \cup {<<(<<97, 97, 97>>), l>> : l \in BuildLinesSet}

InitBuild ==
    /\ MainIdle
    /\ pc = "build"
    /\ PackIdle
    /\ NormIdle
    /\ CosIdle
    /\ IdentIdle
    /\ s = <<>> /\ raised = FALSE
    /\ text \in BuildTexts
    /\ trigrams = <<>>
    /\ lineNo = 0

BuildEmpty ==
    /\ pc = "build"
    /\ text = <<>>
    /\ pc' = "built"
    /\ UNCHANGED <<mainVars, packVars, textVars, buildVars, normVars, cosVars, identVars>>

ExtractLine ==
    /\ pc = "build"
    /\ lineNo < Len(text)
    /\ trigrams' = BuildStep(text[lineNo + 1], trigrams)
    /\ lineNo' = lineNo + 1
    /\ UNCHANGED <<mainVars, pc, packVars, textVars, normVars, cosVars, identVars>>

BuildReturn ==
    /\ pc = "build"
    /\ text # <<>>
    /\ lineNo = Len(text)
    /\ pc' = "built"
    /\ UNCHANGED <<mainVars, packVars, textVars, buildVars, normVars, cosVars, identVars>>

NextBuild == BuildEmpty \/ ExtractLine \/ BuildReturn

SpecBuild == InitBuild /\ [][NextBuild]_vars

\* the characters the Extractor slides its window over: the line without its
\* trailing terminators, decoded, or byte by byte when it is not valid UTF-8
LineIsUnicode(line) == FromBytes(StripLineEnding(line)).ok

LineChars(line) ==
    LET dec == FromBytes(StripLineEnding(line))
    IN IF dec.ok THEN dec.w ELSE StripLineEnding(line)

\* the windows of a line of characters: none below 3 characters, else one
\* per start offset
WindowsOf(chars) ==
    [i \in 1..(IF Len(chars) >= 3 THEN Len(chars) - 2 ELSE 0) |-> SubSeq(chars, i, i + 2)]

\* a window that is not counted: one holding a zero character, or, byte by
\* byte, one of three zero bytes
Discarded(unicode, w) ==
    IF unicode THEN \E j \in 1..3 : w[j] = 0 ELSE w = <<0, 0, 0>>

\* per line visited: its windows, and which of them are counted
Visited ==
    [j \in 1..lineNo |->
        LET chars == LineChars(text[j])
            w     == WindowsOf(chars)
            u     == LineIsUnicode(text[j])
        IN [length  |-> Len(chars),
            windows |-> w,
            counted |-> {i \in DOMAIN w : ~Discarded(u, w[i])},
            noZero  |-> \A i \in 1..Len(chars) : chars[i] # 0]]

RECURSIVE SumOver(_, _, _)
SumOver(f, k, n) == IF k > n THEN 0 ELSE f[k] + SumOver(f, k + 1, n)

\* the value of a count, a whole number
CountAsNat(v) == IF v.m = 0 THEN 0 ELSE v.m \div 2^(0 - v.e)

TotalCount(profile) ==
    LET c == [i \in 1..Len(profile) |-> CountAsNat(profile[i].value)]
    IN SumOver(c, 1, Len(profile))

KeyCount(profile, key) ==
    IF Lookup(profile, key) = 0 THEN 0
    ELSE CountAsNat(profile[Lookup(profile, key)].value)

\* C4 as stated: every line visited added to the profile n - 2 counts when it
\* has n >= 3 characters after its terminators are stripped, and none when
\* n < 3.
C4_AllWindowsCounted ==
    pc \in {"build", "built"} =>
        \A v \in {Visited} :
            LET added == [j \in 1..lineNo |-> Len(v[j].windows)]
            IN TotalCount(trigrams) = SumOver(added, 1, lineNo)

\* C4 (amended): a line of n characters has n - 2 windows when n >= 3 and
\* none when n < 3; every window with no zero character (byte by byte: not
\* made of three zero bytes) adds one to the count of its key, the other
\* windows add nothing, so a line without a zero character adds n - 2.
C4_WindowsCounted ==
    pc \in {"build", "built"} =>
        \A v \in {Visited} :
        \A keyOf \in {[j \in 1..lineNo |->
                          [i \in DOMAIN v[j].windows |-> wcharTrigramToInt(v[j].windows[i])]]} :
            LET keys  == UNION {{keyOf[j][i] : i \in DOMAIN keyOf[j]} : j \in 1..lineNo}
                added == [j \in 1..lineNo |-> Cardinality(v[j].counted)]
            IN /\ \A i \in 1..Len(trigrams) : trigrams[i].key \in keys
               /\ \A key \in keys :
                     LET hits == [j \in 1..lineNo |->
                                     Cardinality({i \in v[j].counted : keyOf[j][i] = key})]
                     IN /\ KeyCount(trigrams, key) = SumOver(hits, 1, lineNo)
                        /\ Lookup(trigrams, key) # 0 <=> SumOver(hits, 1, lineNo) > 0
               /\ TotalCount(trigrams) = SumOver(added, 1, lineNo)
               /\ \A j \in 1..lineNo :
                     /\ Len(v[j].windows) =
                            IF v[j].length >= 3 THEN v[j].length - 2 ELSE 0
                     /\ v[j].noZero => Cardinality(v[j].counted) = Len(v[j].windows)

\* "aaa", then the four bytes of 'a', U+00E9, 'a': three characters, one window
C4_Witness ==
    /\ pc = "built"
    /\ text = << <<97, 97, 97>>, <<97, 195, 169, 97>> >>
    /\ lineNo = 2
    /\ TotalCount(trigrams) = 2
    /\ KeyCount(trigrams, <<0, 97, 233, 97>>) = 1

\* C11: every key of the profile built has its three 16-bit character fields
\* non-zero (a window holding the zero character is never counted), whether
\* the line was decoded as UTF-8 or taken byte by byte
C11_NoZeroField ==
    \A i \in 1..Len(trigrams) :
        \A field \in 2..4 : trigrams[i].key[field] # 0

-----------------------------------------------------------------------------
(* normalizeTrigramProfile harness                                          *)

MaxCount == 3

NormProfiles == CountProfiles(ProfileKeys, 0..MaxCount)

InitNorm ==
    /\ MainIdle
    /\ pc = "norm"
    /\ PackIdle /\ TextIdle /\ BuildIdle /\ CosIdle /\ IdentIdle
    /\ trigramProfile \in NormProfiles
    /\ before = trigramProfile

Normalize ==
    /\ pc = "norm"
    /\ trigramProfile' = normalizeTrigramProfile(trigramProfile)
    /\ pc' = "normalized"
    /\ UNCHANGED <<mainVars, before, packVars, textVars, buildVars, cosVars, identVars>>

NextNorm == Normalize

SpecNorm == InitNorm /\ [][NextNorm]_vars

\* the Euclidean norm of the weights, in float arithmetic
RECURSIVE SquaredWeights(_, _)
SquaredWeights(profile, i) ==
    IF i > Len(profile) THEN FZero
    ELSE FAdd(FMul(profile[i].value, profile[i].value), SquaredWeights(profile, i + 1))

EuclideanNorm(profile) == FSqrt(SquaredWeights(profile, 1))

\* 1 - 0.00001 and 1 + 0.00001 as floats
ToleranceLow == [neg |-> FALSE, m |-> 16777048, e |-> -24]

ToleranceHigh == [neg |-> FALSE, m |-> 8388692, e |-> -23]

IsUnit(x) == ~FLess(x, ToleranceLow) /\ ~FLess(ToleranceHigh, x)

\* C6: normalizeTrigramProfile leaves the keys as they are; it leaves an
\* empty profile, and one whose norm is 0, unchanged; in every other profile
\* the Euclidean norm of the weights is 1 within 0.00001 afterwards.
C6_UnitNorm ==
    pc = "normalized" =>
        /\ Len(trigramProfile) = Len(before)
        /\ \A i \in 1..Len(before) : trigramProfile[i].key = before[i].key
        /\ (before = <<>> \/ EuclideanNorm(before) = FZero) => trigramProfile = before
        /\ (before # <<>> /\ EuclideanNorm(before) # FZero)
              => IsUnit(EuclideanNorm(trigramProfile))

C6_Witness ==
    /\ pc = "normalized"
    /\ Len(before) = 3
    /\ before[1].value = FromInt(1) /\ before[2].value = FromInt(2)
    /\ before[3].value = FromInt(3)
    /\ trigramProfile # before
    /\ IsUnit(EuclideanNorm(trigramProfile))

-----------------------------------------------------------------------------
(* getCosineSimilarity harness                                              *)

MaxWeight == 2

\* normalized profiles of counts 1..MaxWeight, in every iteration order
CosProfiles ==
    {normalizeTrigramProfile(p) : p \in CountProfiles(ProfileKeys, 1..MaxWeight)}

InitCos ==
    /\ MainIdle
    /\ pc = "cos"
    /\ PackIdle /\ TextIdle /\ BuildIdle /\ NormIdle /\ IdentIdle
    /\ textProfile \in CosProfiles
    /\ languageProfile \in CosProfiles
    /\ similarity = FZero /\ similarityBA = FZero

Cosine ==
    /\ pc = "cos"
    /\ similarity' = getCosineSimilarity(textProfile, languageProfile)
    /\ pc' = "swap"
    /\ UNCHANGED <<mainVars, textProfile, languageProfile, similarityBA,
                   packVars, textVars, buildVars, normVars, identVars>>

CosineSwapped ==
    /\ pc = "swap"
    /\ similarityBA' = getCosineSimilarity(languageProfile, textProfile)
    /\ pc' = "compared"
    /\ UNCHANGED <<mainVars, textProfile, languageProfile, similarity,
                   packVars, textVars, buildVars, normVars, identVars>>

NextCos == Cosine \/ CosineSwapped

SpecCos == InitCos /\ [][NextCos]_vars

KeysOf(profile) == {profile[i].key : i \in 1..Len(profile)}

SharedKeys == KeysOf(textProfile) \cap KeysOf(languageProfile)

WeightOf(profile, key) == profile[Lookup(profile, key)].value

\* the products of the two weights of the shared keys, added up in the order
\* ks of the keys
RECURSIVE SumProducts(_, _, _)
SumProducts(ks, i, acc) ==
    IF i > Len(ks) THEN acc
    ELSE SumProducts(ks, i + 1,
                     FAdd(acc, FMul(WeightOf(textProfile, ks[i]),
                                    WeightOf(languageProfile, ks[i]))))

\* the shared keys in the order in which profile iterates them
RECURSIVE SharedInOrder(_, _)
SharedInOrder(profile, i) ==
    IF i > Len(profile) THEN <<>>
    ELSE (IF profile[i].key \in SharedKeys THEN <<profile[i].key>> ELSE <<>>)
         \o SharedInOrder(profile, i + 1)

\* C7 as stated: the similarity does not depend on the order of the arguments
C7_Symmetric ==
    pc = "compared" => similarity = similarityBA

\* Where the symmetry of C7 does hold in this arithmetic: swapping the
\* arguments gives the same float whenever the two profiles differ in their number of entries (both calls then iterate the
\* same profile) or share at most two keys; with equally many entries the
\* first call adds the products in the iteration order of its second
\* argument and the swapped call in that of its own second argument, so the
\* two sums hold the same products and may differ in their rounding.
C7_SymmetricUpToOrder ==
    pc = "compared" =>
        /\ (Len(textProfile) # Len(languageProfile) \/ Cardinality(SharedKeys) <= 2)
              => similarity = similarityBA
        /\ Len(textProfile) = Len(languageProfile) =>
              /\ similarity = SumProducts(SharedInOrder(languageProfile, 1), 1, FZero)
              /\ similarityBA = SumProducts(SharedInOrder(textProfile, 1), 1, FZero)

C7_Witness ==
    /\ pc = "compared"
    /\ Len(textProfile) = 3 /\ Len(languageProfile) = 3
    /\ textProfile[1].key # languageProfile[1].key
    /\ similarity = similarityBA
    /\ similarity # FZero

\* C8: the similarity is exactly 0 when the profiles share no key (an empty
\* profile shares none); otherwise it is the sum of the products of the two
\* weights of the keys present in both profiles, each key once, added in
\* some order.
C8_SharedKeysOnly ==
    pc # "cos" =>
        /\ SharedKeys = {} => similarity = FZero
        /\ \E ks \in Arrangements(SharedKeys, Cardinality(SharedKeys)) :
              similarity = SumProducts(ks, 1, FZero)

C8_Witness ==
    /\ pc = "swap"
    /\ Len(textProfile) = 3 /\ Len(languageProfile) = 2
    /\ Cardinality(SharedKeys) = 2
    /\ similarity # FZero

C8_WitnessDisjoint ==
    /\ pc = "swap"
    /\ Len(textProfile) = 1 /\ Len(languageProfile) = 2
    /\ SharedKeys = {}
    /\ similarity = FZero

-----------------------------------------------------------------------------
(* identifyLanguage harness                                                 *)

MaxLangs == 2

KeyABA == wcharTrigramToInt(<<97, 98, 97>>)

KeyBAB == wcharTrigramToInt(<<98, 97, 98>>)

\* a row of a trigram table of main.cpp: the key and (float)stoi(count)
Row(w, count) == [key |-> wcharTrigramToInt(w), value |-> FromInt(count)]

\* Tables of counts as loadLanguagesData reads them: "aba" alone; "aba" and
\* "bab" 3 to 4 and 4 to 3; "aba" once in 201; "aba" once among counts of
\* norm 100, which makes its weight 0.01f; no row at all; "ccc" alone.
LanguageTables ==
    { << Row(<<97, 98, 97>>, 1) >>,
      << Row(<<97, 98, 97>>, 3), Row(<<98, 97, 98>>, 4) >>,
      << Row(<<97, 98, 97>>, 4), Row(<<98, 97, 98>>, 3) >>,
      << Row(<<97, 98, 97>>, 1), Row(<<98, 97, 98>>, 200) >>,
      << Row(<<97, 98, 97>>, 1), Row(<<120, 120, 120>>, 99), Row(<<121, 121, 121>>, 14),
         Row(<<122, 122, 122>>, 1), Row(<<119, 119, 119>>, 1) >>,
      << >>,
      << Row(<<99, 99, 99>>, 1) >> }

\* the profiles of the tables, normalized as the loader leaves them
LoadedProfiles == {normalizeTrigramProfile(p) : p \in LanguageTables}

LanguageCodes == {"en", "fr", "de"}

\* the collections of up to MaxLangs languages with distinct codes
LanguageCollections ==
    UNION {{[i \in 1..n |-> [languageCode |-> cs[i], trigramProfile |-> ps[i]]] :
               cs \in Arrangements(LanguageCodes, n), ps \in [1..n -> LoadedProfiles]} :
           n \in 0..MaxLangs}

\* no line; an empty line; "ab"; "ab" and "ba"; "aba"; "abab"; "ababa";
\* "ab" and "abab\r"
IdentTexts ==
    { << >>,
      << << >> >>,
      << <<97, 98>> >>,
      << <<97, 98>>, <<98, 97>> >>,
      << <<97, 98, 97>> >>,
      << <<97, 98, 97, 98>> >>,
      << <<97, 98, 97, 98, 97>> >>,
      << <<97, 98>>, <<97, 98, 97, 98, CR>> >> }

InitIdent ==
    /\ MainIdle
    /\ pc = "identify"
    /\ PackIdle /\ BuildIdle /\ NormIdle /\ CosIdle
    /\ s = <<>> /\ raised = FALSE
    /\ text \in IdentTexts
    /\ languages \in LanguageCollections
    /\ textTrigrams = <<>>
    /\ languageCode = "---"
    /\ buildCalls = 0 /\ simCalls = 0

\* the iteration orders the map returned by buildTrigramProfile may have
IterationOrders(profile) ==
    {[i \in 1..Len(profile) |-> profile[o[i]]] :
        o \in Arrangements(1..Len(profile), Len(profile))}

IdentifyLanguage ==
    /\ pc = "identify"
    /\ \E built \in IterationOrders(buildTrigramProfile(text)) :
          \E r \in {identifyLanguage(text, languages, built)} :
             /\ languageCode' = r.code
             /\ textTrigrams' = r.textTrigrams
             /\ buildCalls' = r.buildCalls
             /\ simCalls' = r.simCalls
    /\ pc' = "identified"
    /\ UNCHANGED <<mainVars, languages, packVars, textVars, buildVars, normVars, cosVars>>

NextIdent == IdentifyLanguage

SpecIdent == InitIdent /\ [][NextIdent]_vars

\* the similarity of every language to the normalized profile of the text
Similarities ==
    [i \in 1..Len(languages) |->
        getCosineSimilarity(textTrigrams, languages[i].trigramProfile)]

\* the positions of the languages no other language beats
Maximal(sims) == {i \in DOMAIN sims : \A j \in DOMAIN sims : ~FLess(sims[i], sims[j])}

\* C1: for a text and a language collection that are not empty the code
\* returned is that of a language of maximum similarity to the normalized
\* profile of the text when that maximum is above 0.01f, and "unknown" in
\* every other case; it is always a supplied code or "unknown".
C1_BestAboveThreshold ==
    (pc = "identified" /\ text # <<>> /\ languages # <<>>) =>
        /\ languageCode \in {languages[i].languageCode : i \in 1..Len(languages)}
                              \cup {"unknown"}
        /\ textTrigrams = <<>> => languageCode = "unknown"
        /\ textTrigrams # <<>> =>
              \A sims \in {Similarities} :
                 \A top \in Maximal(sims) :
                    IF FGreater(sims[top], similarityThreshold)
                    THEN \E i \in Maximal(sims) : languageCode = languages[i].languageCode
                    ELSE languageCode = "unknown"

\* "aba" against a language of similarity 0.6 and one of similarity 0.8
C1_Witness ==
    /\ pc = "identified"
    /\ text = << <<97, 98, 97>> >>
    /\ Len(languages) = 2
    /\ languageCode = languages[2].languageCode
    /\ FLess(Similarities[1], Similarities[2])
    /\ FGreater(Similarities[1], similarityThreshold)

\* "aba" against languages whose best similarity is exactly 0.01f
C1_WitnessAtThreshold ==
    /\ pc = "identified"
    /\ text = << <<97, 98, 97>> >>
    /\ Len(languages) = 2
    /\ Similarities[1] = similarityThreshold
    /\ Similarities[2] = FZero
    /\ languageCode = "unknown"

\* C2: when several languages reach the maximum similarity, the code
\* returned is that of the first of them in the collection.
C2_FirstOfTied ==
    (pc = "identified" /\ languageCode # "unknown") =>
        \A sims \in {Similarities} :
           \A first \in Maximal(sims) :
              (\A i \in Maximal(sims) : first <= i)
                 => languageCode = languages[first].languageCode

\* "abab" against the 3-to-4 table and the 4-to-3 table: the same similarity
C2_Witness ==
    /\ pc = "identified"
    /\ text = << <<97, 98, 97, 98>> >>
    /\ Len(languages) = 2
    /\ languages[1].trigramProfile # languages[2].trigramProfile
    /\ Similarities[1] = Similarities[2]
    /\ languageCode = languages[1].languageCode

\* C3: identifyLanguage returns "unknown" and computes no similarity when
\* the text or the language collection is empty, without building a profile,
\* and when the profile built is empty, which it is whenever every line of
\* the text has fewer than 3 characters.
C3_DegenerateInputs ==
    pc = "identified" =>
        /\ (text = <<>> \/ languages = <<>>)
              => (languageCode = "unknown" /\ buildCalls = 0 /\ simCalls = 0)
        /\ (\A k \in 1..Len(text) : Len(text[k]) < 3) => buildTrigramProfile(text) = <<>>
        /\ buildTrigramProfile(text) = <<>> => (languageCode = "unknown" /\ simCalls = 0)

\* the text ["ab"] against two languages
C3_Witness ==
    /\ pc = "identified"
    /\ text = << <<97, 98>> >>
    /\ Len(languages) = 2
    /\ buildCalls = 1 /\ simCalls = 0
    /\ languageCode = "unknown"

-----------------------------------------------------------------------------
(* The frame loop of main (src/main.cpp:124-268)                            *)

\* What GetClipboardText may return: nothing, "aba", "ab", "ABAB\r\nccc".
\* The texts are ASCII, so that a line of wide characters and the same line
\* of bytes are the same sequence of numbers.
ClipboardTexts ==
    { <<>>, <<97, 98, 97>>, <<97, 98>>, <<65, 66, 65, 66, CR, LF, 99, 99, 99>> }

\* the languages loadLanguagesData may leave: none, or "en" with the table
\* {aba: 1} and "fr" with the table {ccc: 1}
MainLanguages ==
    { <<>>,
      << [languageCode |-> "en",
          trigramProfile |-> normalizeTrigramProfile(<< Row(<<97, 98, 97>>, 1) >>)],
         [languageCode |-> "fr",
          trigramProfile |-> normalizeTrigramProfile(<< Row(<<99, 99, 99>>, 1) >>)] >> }

Init ==
    /\ pc = "frame"
    /\ PackIdle /\ TextIdle /\ BuildIdle /\ NormIdle /\ CosIdle
    /\ MainIdle
    /\ languages \in MainLanguages
    /\ textTrigrams = <<>> /\ buildCalls = 0 /\ simCalls = 0
    /\ languageCode = "---"

\* fields of mainVars that hold the inputs of the frame
inputVars == <<keyV, keyModifier, keySpace, droppedFiles>>

\* fields of mainVars that hold the application state
stateVars ==
    <<currentState, processing, loadedText, pendingClipboard, pendingFilePath,
      isFromFile>>

libVars == <<packVars, buildVars, normVars, cosVars, textTrigrams, buildCalls, simCalls>>

\* while (!WindowShouldClose()): a frame starts with the inputs raylib
\* polled at the end of the last one
BeginFrame ==
    /\ pc = "frame"
    /\ keyV' \in BOOLEAN /\ keyModifier' \in BOOLEAN /\ keySpace' \in BOOLEAN
    /\ droppedFiles' \in 0..2
    /\ accepted' = FALSE
    /\ classification' = "none"
    /\ pc' = "clipboard"
    /\ UNCHANGED <<stateVars, shown, languages, languageCode, textVars, libVars>>

\* WindowShouldClose() returns true
CloseWindow ==
    /\ pc = "frame"
    /\ pc' = "closed"
    /\ UNCHANGED <<mainVars, languages, languageCode, textVars, libVars>>

\* main.cpp:127-138
HandleClipboard ==
    /\ pc = "clipboard"
    /\ IF keyV /\ keyModifier
       THEN /\ processing' = TRUE
            /\ currentState' = "PROCESSING"
            /\ loadedText' = TRUE
            /\ pendingClipboard' \in ClipboardTexts
            /\ isFromFile' = FALSE
            /\ accepted' = TRUE
            /\ shown' = FALSE
       ELSE UNCHANGED <<processing, currentState, loadedText, pendingClipboard,
                        isFromFile, accepted, shown>>
    /\ pc' = "drop"
    /\ UNCHANGED <<pendingFilePath, inputVars, classification, languages,
                   languageCode, textVars, libVars>>

\* main.cpp:141-153; UnloadDroppedFiles empties the list of dropped files
HandleDrop ==
    /\ pc = "drop"
    /\ IF droppedFiles = 1
       THEN /\ processing' = TRUE
            /\ currentState' = "PROCESSING"
            /\ loadedText' = TRUE
            /\ pendingFilePath' \in FilePaths
            /\ isFromFile' = TRUE
            /\ accepted' = TRUE
            /\ shown' = FALSE
       ELSE UNCHANGED <<processing, currentState, loadedText, pendingFilePath,
                        isFromFile, accepted, shown>>
    /\ droppedFiles' = 0
    /\ pc' = "process"
    /\ UNCHANGED <<pendingClipboard, keyV, keyModifier, keySpace, classification,
                   languages, languageCode, textVars, libVars>>

\* the condition of main.cpp:156
ReadyToProcess == loadedText /\ ~processing /\ currentState = "PROCESSING"

\* main.cpp:163-178: the text read from the pending input; the pending
\* input is emptied once the read has returned
ReadPending ==
    IF isFromFile THEN getTextFromFile(pendingFilePath)
    ELSE LET r == getTextFromString(pendingClipboard)
         IN [success |-> ~r.raised, raised |-> r.raised, text |-> r.text]

\* main.cpp:156-198. An exception that leaves getTextFromString is caught
\* nowhere and ends the program.
ProcessText ==
    /\ pc = "process"
    /\ ReadyToProcess
    /\ \E r \in {ReadPending} :
          /\ text' = r.text
          /\ raised' = r.raised
          /\ IF r.raised
             THEN /\ classification' = "thrown"
                  /\ pc' = "terminated"
                  /\ UNCHANGED <<currentState, languageCode, pendingClipboard,
                                 pendingFilePath>>
             ELSE /\ pendingFilePath' = IF isFromFile THEN "" ELSE pendingFilePath
                  /\ pendingClipboard' = IF isFromFile THEN pendingClipboard ELSE <<>>
                  /\ IF r.success
                     THEN /\ classification' = "identified"
                          /\ \E built \in IterationOrders(buildTrigramProfile(r.text)) :
                                languageCode' = identifyLanguage(r.text, languages, built).code
                     ELSE /\ classification' = "failed"
                          /\ languageCode' = "error"
                  /\ currentState' = "RESULT_READY"
                  /\ pc' = "render"
    /\ UNCHANGED <<processing, loadedText, isFromFile, inputVars, accepted, shown,
                   languages, s, libVars>>

\* the condition of main.cpp:156 is false
SkipProcessing ==
    /\ pc = "process"
    /\ ~ReadyToProcess
    /\ pc' = "render"
    /\ UNCHANGED <<mainVars, languages, languageCode, textVars, libVars>>

\* main.cpp:206-257: the switch on currentState between BeginDrawing and
\* the reset
Render ==
    /\ pc = "render"
    /\ processing' = IF currentState = "PROCESSING" THEN FALSE ELSE processing
    /\ shown' = IF currentState = "PROCESSING" THEN TRUE ELSE shown
    /\ loadedText' = IF currentState = "RESULT_READY" THEN FALSE ELSE loadedText
    /\ pc' = "reset"
    /\ UNCHANGED <<currentState, pendingClipboard, pendingFilePath, isFromFile,
                   inputVars, accepted, classification, languages, languageCode,
                   textVars, libVars>>

\* main.cpp:260-267
ResetState ==
    /\ pc = "reset"
    /\ IF currentState = "RESULT_READY" /\ (keyV \/ droppedFiles > 0 \/ keySpace)
       THEN /\ currentState' = "WAITING"
            /\ languageCode' = "---"
       ELSE UNCHANGED <<currentState, languageCode>>
    /\ pc' = "frame"
    /\ UNCHANGED <<processing, loadedText, pendingClipboard, pendingFilePath,
                   isFromFile, inputVars, accepted, shown, classification,
                   languages, textVars, libVars>>

Next ==
    \/ BeginFrame
    \/ CloseWindow
    \/ HandleClipboard
    \/ HandleDrop
    \/ ProcessText
    \/ SkipProcessing
    \/ Render
    \/ ResetState

Spec == Init /\ [][Next]_vars

\* the codes identifyLanguage can return for the languages loaded
ResultCodes == {languages[i].languageCode : i \in 1..Len(languages)} \cup {"unknown"}

\* the processing step has run in the step from the unprimed to the primed state
ProcessingStep == classification = "none" /\ classification' # "none"

\* C12: identifyLanguage is invoked in a frame only when currentState is
\* PROCESSING, the "Processing..." screen was drawn in an earlier frame after
\* the most recent accepted input, and no input was accepted in this frame;
\* directly after the processing step currentState is RESULT_READY and
\* languageCode is the result of identifyLanguage or "error"
C12_ClassifiedAfterProcessingScreen ==
    [][ProcessingStep =>
          /\ classification' = "identified" =>
                (currentState = "PROCESSING" /\ shown /\ ~accepted)
          /\ currentState' = "RESULT_READY"
          /\ languageCode' \in ResultCodes \cup {"error"}
          /\ classification' = "identified" => languageCode' \in ResultCodes
          /\ classification' = "failed" => languageCode' = "error"]_vars

\* What does hold of the frame loop: the same, for every processing step
\* that getTextFromString does not leave by an exception
ProcessingStepReturns ==
    [][(ProcessingStep /\ classification' # "thrown") =>
          /\ currentState = "PROCESSING" /\ shown /\ ~accepted
          /\ currentState' = "RESULT_READY"
          /\ classification' = "identified" => languageCode' \in ResultCodes
          /\ classification' = "failed" => languageCode' = "error"]_vars

\* an input is accepted in the very frame whose processing step would have
\* classified the input before it, and nothing is classified in that frame
AcceptedInsteadOfClassified ==
    /\ pc = "render" /\ accepted /\ classification = "none"
    /\ loadedText /\ currentState = "PROCESSING" /\ processing

\* a dropped file has been classified
FileClassified ==
    /\ pc = "render" /\ classification = "identified" /\ isFromFile
    /\ languageCode = "en"

====
